---------------------------- MODULE Spec2Model ----------------------------
(***************************************************************************)
(* AIVA Detect System: the identifier store, the /add and /remove          *)
(* commands and the duplicate detection of handle_message, as a state      *)
(* machine over the two tables identifier_records and duplicate_alerts.    *)
(*                                                                         *)
(* Text is a sequence of one-character strings.  Several bot instances     *)
(* (Procs) share the store; each instance handles one update at a time     *)
(* (python-telegram-bot dispatches updates sequentially), and every        *)
(* statement sent to the store is one step, so the statements of           *)
(* different instances interleave (Spec).  determine_identifier_type is    *)
(* also specified on its own, as a call with one argument (ClassifySpec).  *)
(***************************************************************************)
EXTENDS Integers, Sequences, FiniteSets, TLC

(***************************************************************************)
(* Characters and the str methods the handlers use (ASCII).                *)
(***************************************************************************)
Digits == {"0", "1", "2", "3", "4", "5", "6", "7", "8", "9"}

LowerLetters == {"a", "b", "c", "d", "e", "f", "g", "h", "i", "j", "k", "l", "m",
                 "n", "o", "p", "q", "r", "s", "t", "u", "v", "w", "x", "y", "z"}

UpperLetters == {"A", "B", "C", "D", "E", "F", "G", "H", "I", "J", "K", "L", "M",
                 "N", "O", "P", "Q", "R", "S", "T", "U", "V", "W", "X", "Y", "Z"}

Letters == LowerLetters \cup UpperLetters

HexDigits == Digits \cup {"a", "b", "c", "d", "e", "f"}

\* str.split() / str.strip() / \s whitespace
Whitespace == {" ", "\t", "\n", "\r"}

\* the separators of extract_identifiers: [\s\n\t\r,;|]
Separators == Whitespace \cup {",", ";", "|"}

Lower(c) ==
    CASE c = "A" -> "a" [] c = "B" -> "b" [] c = "C" -> "c" [] c = "D" -> "d"
      [] c = "E" -> "e" [] c = "F" -> "f" [] c = "G" -> "g" [] c = "H" -> "h"
      [] c = "I" -> "i" [] c = "J" -> "j" [] c = "K" -> "k" [] c = "L" -> "l"
      [] c = "M" -> "m" [] c = "N" -> "n" [] c = "O" -> "o" [] c = "P" -> "p"
      [] c = "Q" -> "q" [] c = "R" -> "r" [] c = "S" -> "s" [] c = "T" -> "t"
      [] c = "U" -> "u" [] c = "V" -> "v" [] c = "W" -> "w" [] c = "X" -> "x"
      [] c = "Y" -> "y" [] c = "Z" -> "z" [] OTHER -> c

\* str.lower()
LowerStr(s) == [i \in 1..Len(s) |-> Lower(s[i])]

Chars(s) == {s[i] : i \in 1..Len(s)}

\* str.isdigit(), str.isalpha(): non-empty and every character of the class
IsDigitStr(s) == Len(s) > 0 /\ Chars(s) \subseteq Digits

\* mutant: one letter is enough
IsAlphaStrLoose(s) == Chars(s) \cap Letters # {}

IsAlphaStr(s) == Len(s) > 0 /\ Chars(s) \subseteq Letters

RECURSIVE LStrip(_)
LStrip(s) ==
    IF Len(s) > 0 /\ Head(s) \in Whitespace THEN LStrip(Tail(s)) ELSE s

RECURSIVE RStrip(_)
RStrip(s) ==
    IF Len(s) > 0 /\ s[Len(s)] \in Whitespace
    THEN RStrip(SubSeq(s, 1, Len(s) - 1))
    ELSE s

\* str.strip()
Strip(s) == RStrip(LStrip(s))

\* ''.join(s.split()): s without its whitespace
RemoveWhitespace(s) == SelectSeq(s, LAMBDA c : c \notin Whitespace)

\* ' '.join(args)
RECURSIVE JoinArgs(_)
JoinArgs(args) ==
    IF Len(args) = 0 THEN << >>
    ELSE IF Len(args) = 1 THEN args[1]
    ELSE args[1] \o <<" ">> \o JoinArgs(Tail(args))

\* mutant: what follows the first '@'
AfterFirstAt(s) ==
    IF "@" \in Chars(s)
    THEN LET i == CHOOSE k \in 1..Len(s) :
                      s[k] = "@" /\ \A j \in 1..(k - 1) : s[j] # "@"
         IN  SubSeq(s, i + 1, Len(s))
    ELSE s

\* s.split('@')[-1]: what follows the last '@' (all of s when there is none)
AfterLastAt(s) ==
    IF "@" \in Chars(s)
    THEN LET i == CHOOSE k \in 1..Len(s) :
                      s[k] = "@" /\ \A j \in (k + 1)..Len(s) : s[j] # "@"
         IN  SubSeq(s, i + 1, Len(s))
    ELSE s

\* s.startswith(prefix) at offset i (1-based)
StartsWithAt(s, i, prefix) ==
    /\ i + Len(prefix) - 1 <= Len(s)
    /\ \A k \in 1..Len(prefix) : s[i + k - 1] = prefix[k]


(***************************************************************************)
(* determine_identifier_type: the type tag stored with a new record.       *)
(***************************************************************************)
UuidLen == 36

UuidHyphens == {9, 14, 19, 24}

\* re.match(r'^[0-9a-f]{8}-[0-9a-f]{4}-[0-9a-f]{4}-[0-9a-f]{4}-[0-9a-f]{12}$', s)
MatchesUuid(s) ==
    /\ Len(s) = UuidLen
    /\ \A i \in 1..UuidLen :
          IF i \in UuidHyphens THEN s[i] = "-" ELSE s[i] \in HexDigits

\* mutant: a number is a phone number from nine digits on
DigitTypeLatePhone(length) ==
    IF 8 < length /\ length <= 15 THEN "phone"
    ELSE IF 16 <= length /\ length <= 20 THEN "account_number"
    ELSE IF length > 20 THEN "large_number"
    ELSE "numeric"

\* mutant: an account number has fewer than twenty digits
DigitTypeShortAccount(length) ==
    IF 8 <= length /\ length <= 15 THEN "phone"
    ELSE IF 16 <= length /\ length < 20 THEN "account_number"
    ELSE IF length >= 20 THEN "large_number"
    ELSE "numeric"

\* the tag of a string of digits, by its length
DigitType(length) ==
    IF 8 <= length /\ length <= 15 THEN "phone"
    ELSE IF 16 <= length /\ length <= 20 THEN "account_number"
    ELSE IF length > 20 THEN "large_number"
    ELSE "numeric"

determine_identifier_type(identifier) ==
    LET clean_identifier == RemoveWhitespace(identifier)
        length == Len(clean_identifier)
    IN  IF clean_identifier = << >> THEN "unknown"
        ELSE IF "@" \in Chars(clean_identifier)
                /\ "." \in Chars(AfterLastAt(clean_identifier)) THEN "email"
        ELSE IF IsDigitStr(clean_identifier) THEN DigitType(length)
        ELSE IF /\ Chars(clean_identifier) \cap (Letters \cup Digits) # {}
                /\ Chars(clean_identifier) \cap Letters # {}
                /\ Chars(clean_identifier) \cap Digits # {} THEN "reference_code"
        ELSE IF /\ Chars(clean_identifier) \cap (Letters \cup Digits) # {}
                /\ IsAlphaStr(clean_identifier) THEN "text"
        ELSE IF MatchesUuid(LowerStr(clean_identifier)) THEN "uuid"
        ELSE "custom"

(***************************************************************************)
(* extract_identifiers: the candidates of one message.                     *)
(***************************************************************************)
\* the minimum length of a part that is taken as a candidate
MinPartLen == 6

\* the end (exclusive) of the run of non-whitespace characters starting at i
RECURSIVE NonSpaceEnd(_, _)
NonSpaceEnd(s, i) ==
    IF i <= Len(s) /\ s[i] \notin Whitespace THEN NonSpaceEnd(s, i + 1) ELSE i

\* where a match of https?://\S+|www\.\S+ that starts at i ends (exclusive);
\* i when no match starts there
UrlMatchEnd(s, i) ==
    LET after(prefix) ==
            IF StartsWithAt(s, i, prefix)
               /\ NonSpaceEnd(s, i + Len(prefix)) > i + Len(prefix)
            THEN NonSpaceEnd(s, i + Len(prefix))
            ELSE i
        https == after(<<"h", "t", "t", "p", "s", ":", "/", "/">>)
        http == after(<<"h", "t", "t", "p", ":", "/", "/">>)
        www == after(<<"w", "w", "w", ".">>)
    IN  IF https > i THEN https ELSE IF http > i THEN http ELSE www

\* re.sub(r'https?://\S+|www\.\S+', '', text)
RECURSIVE RemoveUrlsFrom(_, _)
RemoveUrlsFrom(s, i) ==
    IF i > Len(s) THEN << >>
    ELSE LET e == UrlMatchEnd(s, i)
         IN  IF e > i THEN RemoveUrlsFrom(s, e)
             ELSE <<s[i]>> \o RemoveUrlsFrom(s, i + 1)

RemoveUrls(text) == RemoveUrlsFrom(text, 1)

\* re.split(r'[\s\n\t\r,;|]+', text): the pieces between runs of separators,
\* the empty pieces before a leading and after a trailing run included
RECURSIVE SplitFrom(_, _, _)
SplitFrom(s, i, cur) ==
    IF i > Len(s) THEN <<cur>>
    ELSE IF s[i] \in Separators
         THEN IF i > 1 /\ s[i - 1] \in Separators
              THEN SplitFrom(s, i + 1, cur)
              ELSE <<cur>> \o SplitFrom(s, i + 1, << >>)
         ELSE SplitFrom(s, i + 1, Append(cur, s[i]))

ReSplit(text) == SplitFrom(text, 1, << >>)

\* mutant: repeated candidates are kept
DedupeOff(xs, seen) == xs

\* [x for x in potential if not (x in seen or seen.add(x))]
RECURSIVE Dedupe(_, _)
Dedupe(xs, seen) ==
    IF xs = << >> THEN << >>
    ELSE IF Head(xs) \in seen THEN Dedupe(Tail(xs), seen)
         ELSE <<Head(xs)>> \o Dedupe(Tail(xs), seen \cup {Head(xs)})

\* mutant: the parts are taken whatever their length
extract_identifiers_unfiltered(text0) ==
    LET text == RemoveUrls(text0)
        parts == ReSplit(text)
        stripped == [i \in 1..Len(parts) |-> Strip(parts[i])]
        potential == <<Strip(text)>> \o stripped
    IN  Dedupe(potential, {})

extract_identifiers(text0) ==
    LET text == RemoveUrls(text0)
        parts == ReSplit(text)
        stripped == [i \in 1..Len(parts) |-> Strip(parts[i])]
        long == SelectSeq(stripped, LAMBDA part : Len(part) >= MinPartLen)
        potential == <<Strip(text)>> \o long
    IN  Dedupe(potential, {})

(***************************************************************************)
(* Settings.admin_ids_list and AIVABot.is_admin.                           *)
(***************************************************************************)
DigitValue(c) ==
    CASE c = "0" -> 0 [] c = "1" -> 1 [] c = "2" -> 2 [] c = "3" -> 3
      [] c = "4" -> 4 [] c = "5" -> 5 [] c = "6" -> 6 [] c = "7" -> 7
      [] c = "8" -> 8 [] c = "9" -> 9

\* int(s) of a string of digits
RECURSIVE ParseInt(_)
ParseInt(s) ==
    IF Len(s) = 0 THEN 0
    ELSE 10 * ParseInt(SubSeq(s, 1, Len(s) - 1)) + DigitValue(s[Len(s)])

\* s.split(',')
RECURSIVE SplitComma(_, _, _)
SplitComma(s, i, cur) ==
    IF i > Len(s) THEN <<cur>>
    ELSE IF s[i] = "," THEN <<cur>> \o SplitComma(s, i + 1, << >>)
    ELSE SplitComma(s, i + 1, Append(cur, s[i]))

\* the ADMIN_IDS setting (its default)
ADMIN_IDS == <<"1">>

\* mutant: no default when the setting names no id
admin_ids_list_no_default(setting) ==
    IF Strip(setting) = << >> THEN <<1>>
    ELSE IF IsDigitStr(Strip(setting)) THEN <<ParseInt(Strip(setting))>>
    ELSE LET tokens == SplitComma(setting, 1, << >>)
             stripped == [i \in 1..Len(tokens) |-> Strip(tokens[i])]
             valid == SelectSeq(stripped, IsDigitStr)
         IN  [i \in 1..Len(valid) |-> ParseInt(valid[i])]

admin_ids_list(setting) ==
    IF Strip(setting) = << >> THEN <<1>>
    ELSE IF IsDigitStr(Strip(setting)) THEN <<ParseInt(Strip(setting))>>
    ELSE LET tokens == SplitComma(setting, 1, << >>)
             stripped == [i \in 1..Len(tokens) |-> Strip(tokens[i])]
             valid == SelectSeq(stripped, IsDigitStr)
             ids == [i \in 1..Len(valid) |-> ParseInt(valid[i])]
         IN  IF ids = << >> THEN <<1>> ELSE ids

\* mutant: every user passes for an administrator
is_admin_anyone(user_id) == TRUE

is_admin(user_id) ==
    \E i \in 1..Len(admin_ids_list(ADMIN_IDS)) : admin_ids_list(ADMIN_IDS)[i] = user_id

(***************************************************************************)
(* Bounds and inputs of the model.                                         *)
(***************************************************************************)
\* an /add command is sent only while the records inserted so far and the
\* /add commands under way are fewer than this
MaxInserts == 2

\* messages are sent only while their candidates cannot take the alert
\* table beyond this many rows
MaxAlerts == 2

\* the bot instances that share the store
Procs == {1, 2}

\* "ABC-999" and "ABC-999 x": a message that is the second holds both
IdA == <<"A", "B", "C", "-", "9", "9", "9">>

IdB == IdA \o <<" ", "x">>

\* "abc-999": the first in another letter case
IdC == LowerStr(IdA)

\* telegram user ids: 1 is the configured administrator, 2 is not
Users == {1, 2}

\* context.args of /add
AddArgs == {<< >>, <<IdA>>, <<IdA, <<"x">>>>}

\* context.args of /remove
RemoveArgs == {<< >>, <<<<"1">>>>, <<<<"2">>>>, <<<<"x">>>>}

\* message.text of a plain message
MessageTexts == {<< >>, <<" ">>, <<"/", "x">>, IdA, IdB, IdC}

(***************************************************************************)
(* The store: the tables of database/models.py.                            *)
(***************************************************************************)
VARIABLES
    records,           \* table identifier_records
    alerts,            \* table duplicate_alerts
    clock,             \* datetime.utcnow, one tick per insert
    pc,                \* where each instance is in its handler
    op,                \* the handler each instance runs
    user,              \* update.effective_user.id of /add and of a /remove let through
    identifier,        \* the identifier of /add, the candidate of a message
    record_id,         \* the id argument of /remove
    existing,          \* the row the handler's lookup returned
    pending,           \* the candidates of the message not yet looked up
    found_duplicates,  \* handle_message's flag
    result,            \* how the handler ended
    raised,            \* the exceptions raised inside the handler so far
    sent,              \* the messages the handler sent, in order
    db_calls,          \* the calls get_db made on its sessions for the handler
    total_identifiers, \* status: the count of all records, once it is taken
    duplicates,        \* status: the 'Duplicates Detected' figure of the reply
    input,             \* the argument of a call of determine_identifier_type
    output             \* what the call returned ("none" before it returns)

vars == <<records, alerts, clock, pc, op, user, identifier, record_id, existing,
          pending, found_duplicates, result, raised, sent, db_calls,
          total_identifiers, duplicates, input, output>>

\* no row (None)
NoRecord ==
    [id |-> 0, identifier |-> << >>, identifier_type |-> "", user_id |-> 0,
     is_duplicate |-> FALSE, created_at |-> 0]

\* mutant: the type tag is not stored with the record
NewRecordUntyped(id, ident, uid, now) ==
    [id |-> id, identifier |-> ident, identifier_type |-> "unknown",
     user_id |-> uid, is_duplicate |-> FALSE, created_at |-> now]

\* IdentifierRecord(identifier=..., identifier_type=..., user_id=...,
\* is_duplicate=False) with the column defaults; notes, group_id and message_id
\* stay NULL and updated_at equals created_at, as no handler updates a row
NewRecord(id, ident, uid, now) ==
    [id |-> id, identifier |-> ident,
     identifier_type |-> determine_identifier_type(ident), user_id |-> uid,
     is_duplicate |-> FALSE, created_at |-> now]

\* mutant: the alert is stored as already resolved
NewAlertResolved(id, ident, existing_record) ==
    [id |-> id, identifier |-> ident, original_id |-> existing_record.id,
     duplicate_id |-> 0, status |-> "resolved"]

\* mutant: the matched record is stored as duplicate_id, not as original_id
NewAlertSwapped(id, ident, existing_record) ==
    [id |-> id, identifier |-> ident, original_id |-> 0,
     duplicate_id |-> existing_record.id, status |-> "pending"]

\* DuplicateAlert(identifier=identifier, original_id=existing_record.id,
\* status='pending'); duplicate_id stays NULL (0)
NewAlert(id, ident, existing_record) ==
    [id |-> id, identifier |-> ident, original_id |-> existing_record.id,
     duplicate_id |-> 0, status |-> "pending"]

SetMax(S) == CHOOSE x \in S : \A y \in S : y <= x

\* an INTEGER PRIMARY KEY column without AUTOINCREMENT: the largest id in
\* the table plus one, so the id of a deleted last row is given out again
NextId(rows) == IF rows = {} THEN 1 ELSE SetMax({r.id : r \in rows}) + 1

\* mutant: the column has no unique index
UniqueViolationOff(rows, ident) == FALSE

\* unique=True on identifier_records.identifier
UniqueViolation(rows, ident) == \E r \in rows : r.identifier = ident

\* ForeignKey('identifier_records.id') on a SQLite engine that is created
\* without PRAGMA foreign_keys=ON: declared, not enforced
ForeignKeysEnforced == FALSE

\* mutant: the filter asks for the rows flagged as duplicates
FindActiveWrongFlag(rows, ident) ==
    IF \E r \in rows : r.identifier = ident /\ r.is_duplicate
    THEN CHOOSE r \in rows : r.identifier = ident /\ r.is_duplicate
    ELSE NoRecord

\* mutant: the comparison ignores letter case
FindActiveCaseless(rows, ident) ==
    IF \E r \in rows : LowerStr(r.identifier) = LowerStr(ident) /\ ~r.is_duplicate
    THEN CHOOSE r \in rows : LowerStr(r.identifier) = LowerStr(ident) /\ ~r.is_duplicate
    ELSE NoRecord

\* db.query(IdentifierRecord).filter(identifier == ..., is_duplicate == False).first()
FindActive(rows, ident) ==
    IF \E r \in rows : r.identifier = ident /\ ~r.is_duplicate
    THEN CHOOSE r \in rows : r.identifier = ident /\ ~r.is_duplicate
    ELSE NoRecord

\* mutant: the newest row is returned when no row has the id
GetByIdOrLast(rows, id) ==
    IF \E r \in rows : r.id = id THEN CHOOSE r \in rows : r.id = id
    ELSE IF rows # {} THEN CHOOSE r \in rows : r.id = SetMax({x.id : x \in rows})
    ELSE NoRecord

\* db.query(IdentifierRecord).get(record_id)
GetById(rows, id) ==
    IF \E r \in rows : r.id = id THEN CHOOSE r \in rows : r.id = id ELSE NoRecord

\* the store after init_db and the instances before their first update
StoreInit ==
    /\ records = {}
    /\ alerts = {}
    /\ clock = 0
    /\ pc = [p \in Procs |-> "idle"]
    /\ op = [p \in Procs |-> "none"]
    /\ user = [p \in Procs |-> 0]
    /\ identifier = [p \in Procs |-> << >>]
    /\ record_id = [p \in Procs |-> 0]
    /\ existing = [p \in Procs |-> NoRecord]
    /\ pending = [p \in Procs |-> << >>]
    /\ found_duplicates = [p \in Procs |-> FALSE]
    /\ result = [p \in Procs |-> "none"]
    /\ raised = [p \in Procs |-> {}]
    /\ sent = [p \in Procs |-> << >>]
    /\ db_calls = [p \in Procs |-> << >>]
    /\ total_identifiers = [p \in Procs |-> 0]
    /\ duplicates = [p \in Procs |-> 0]

Init ==
    /\ StoreInit
    /\ input = << >>
    /\ output = "none"

\* db = SessionLocal(): the with block is entered
get_db_enter == <<"SessionLocal">>

\* mutant: the session is closed after the commit only, not in a finally clause
get_db_exit_unclosed(exception) ==
    IF exception THEN <<"rollback">> ELSE <<"commit", "close">>

\* the with block is left: db.commit() when the block ended normally,
\* db.rollback() and a re-raise when an exception left it, db.close() always
get_db_exit(exception) ==
    IF exception THEN <<"rollback", "close">> ELSE <<"commit", "close">>

Enter(p) == db_calls' = [db_calls EXCEPT ![p] = @ \o get_db_enter]

Exit(p, exception) == db_calls' = [db_calls EXCEPT ![p] = @ \o get_db_exit(exception)]

\* the handler of p ends: its locals are gone, and the argument it was called
\* with, how it ended, what it raised and what it sent stay visible until the
\* instance takes its next update
Finish(p, how, exceptions, messages) ==
    /\ pc' = [pc EXCEPT ![p] = "done"]
    /\ result' = [result EXCEPT ![p] = how]
    /\ raised' = [raised EXCEPT ![p] = @ \cup exceptions]
    /\ sent' = [sent EXCEPT ![p] = @ \o messages]
    /\ user' = [user EXCEPT ![p] = 0]
    /\ existing' = [existing EXCEPT ![p] = NoRecord]
    /\ UNCHANGED record_id
    /\ pending' = [pending EXCEPT ![p] = << >>]

(***************************************************************************)
(* add_identifier (/add, /add_identifier).  The SELECT and the INSERT are  *)
(* two statements with no lock between them; a statement may fail with an  *)
(* OperationalError (ok = FALSE), and the INSERT with an IntegrityError.   *)
(***************************************************************************)
AddStart(p) ==
    /\ pc[p] = "idle"
    /\ clock + Cardinality({q \in Procs : pc[q] \in {"add_lookup", "add_insert"}})
           < MaxInserts
    /\ \E args \in AddArgs, u \in Users :
          LET ident == Strip(JoinArgs(args))
          IN  /\ op' = [op EXCEPT ![p] = "add"]
              /\ identifier' = [identifier EXCEPT ![p] = ident]
              /\ IF args = << >>
                 THEN Finish(p, "Rejected", {}, <<"chat:usage">>)
                      /\ UNCHANGED db_calls
                 ELSE IF ident = << >>
                 THEN Finish(p, "Rejected", {}, <<"chat:empty">>)
                      /\ UNCHANGED db_calls
                 ELSE /\ pc' = [pc EXCEPT ![p] = "add_lookup"]
                      /\ user' = [user EXCEPT ![p] = u]
                      /\ Enter(p)
                      /\ UNCHANGED <<result, raised, sent, record_id, existing,
                                     pending>>
    /\ UNCHANGED <<total_identifiers, duplicates, input, output, records, alerts, clock, found_duplicates>>

AddLookup(p) ==
    /\ pc[p] = "add_lookup"
    /\ \E ok \in BOOLEAN :
          IF ~ok
          THEN /\ Finish(p, "Error", {"OperationalError"}, <<"chat:add_error">>)
               /\ Exit(p, TRUE)
          ELSE IF FindActive(records, identifier[p]) # NoRecord
          THEN /\ Finish(p, "AlreadyMonitored", {}, <<"chat:already">>)
               /\ Exit(p, FALSE)
          ELSE /\ pc' = [pc EXCEPT ![p] = "add_insert"]
               /\ UNCHANGED db_calls
               /\ UNCHANGED <<result, raised, sent, user, record_id, existing,
                              pending>>
    /\ UNCHANGED <<total_identifiers, duplicates, input, output, records, alerts, clock, op, identifier, found_duplicates>>

AddInsert(p) ==
    /\ pc[p] = "add_insert"
    /\ \E ok \in BOOLEAN :
          IF ~ok
          THEN /\ Finish(p, "Error", {"OperationalError"}, <<"chat:add_error">>)
               /\ Exit(p, TRUE)
               /\ UNCHANGED <<records, clock>>
          ELSE IF UniqueViolation(records, identifier[p])
          THEN /\ Finish(p, "Error", {"IntegrityError"}, <<"chat:add_error">>)
               /\ Exit(p, TRUE)
               /\ UNCHANGED <<records, clock>>
          ELSE /\ clock' = clock + 1
               /\ records' = records \cup
                      {NewRecord(NextId(records), identifier[p], user[p], clock')}
               /\ Finish(p, "Accepted", {}, <<"chat:added">>)
               /\ Exit(p, FALSE)
    /\ UNCHANGED <<total_identifiers, duplicates, input, output, alerts, op, identifier, found_duplicates>>

(***************************************************************************)
(* remove_identifier (/remove), behind the admin_only decorator.           *)
(***************************************************************************)
\* int(context.args[0]) does not raise ValueError (arguments without sign)
IsIntLiteral(s) == IsDigitStr(s)

RemoveStart(p) ==
    /\ pc[p] = "idle"
    /\ \E args \in RemoveArgs, u \in Users \cup {0} :
          /\ op' = [op EXCEPT ![p] = "remove"]
          /\ IF u = 0 \/ ~is_admin(u)
             THEN Finish(p, "Denied", {}, <<"chat:admin_only">>)
                  /\ UNCHANGED db_calls
             ELSE IF args = << >>
             THEN Finish(p, "Rejected", {}, <<"chat:usage">>)
                  /\ UNCHANGED db_calls
             ELSE IF ~IsIntLiteral(args[1])
             THEN Finish(p, "Invalid", {"ValueError"}, <<"chat:invalid_id">>)
                  /\ UNCHANGED db_calls
             ELSE /\ record_id' = [record_id EXCEPT ![p] = ParseInt(args[1])]
                  /\ Enter(p)
                  /\ user' = [user EXCEPT ![p] = u]
                  /\ pc' = [pc EXCEPT ![p] = "remove_get"]
                  /\ UNCHANGED <<result, raised, sent, existing, pending>>
    /\ UNCHANGED <<total_identifiers, duplicates, input, output, records, alerts, clock, identifier, found_duplicates>>

RemoveGet(p) ==
    /\ pc[p] = "remove_get"
    /\ \E ok \in BOOLEAN :
          IF ~ok
          THEN /\ Finish(p, "Error", {"OperationalError"}, <<"chat:remove_error">>)
               /\ Exit(p, TRUE)
          ELSE IF GetById(records, record_id[p]) = NoRecord
          THEN /\ Finish(p, "NotFound", {}, <<"chat:not_found">>)
               /\ Exit(p, FALSE)
          ELSE /\ existing' = [existing EXCEPT ![p] = GetById(records, record_id[p])]
               /\ UNCHANGED db_calls
               /\ pc' = [pc EXCEPT ![p] = "remove_delete"]
               /\ UNCHANGED <<result, raised, sent, user, record_id, pending>>
    /\ UNCHANGED <<total_identifiers, duplicates, input, output, records, alerts, clock, op, identifier, found_duplicates>>

\* db.delete(record); db.commit(): DELETE ... WHERE id = record.id
RemoveDelete(p) ==
    /\ pc[p] = "remove_delete"
    /\ \E ok \in BOOLEAN :
          IF ~ok
          THEN /\ Finish(p, "Error", {"OperationalError"}, <<"chat:remove_error">>)
               /\ Exit(p, TRUE)
               /\ UNCHANGED records
          ELSE IF ForeignKeysEnforced
                  /\ \E a \in alerts : a.original_id = existing[p].id
          THEN /\ Finish(p, "Error", {"IntegrityError"}, <<"chat:remove_error">>)
               /\ Exit(p, TRUE)
               /\ UNCHANGED records
          ELSE /\ records' = {r \in records : r.id # existing[p].id}
               /\ Finish(p, "Removed", {}, <<"chat:removed">>)
               /\ Exit(p, FALSE)
    /\ UNCHANGED <<total_identifiers, duplicates, input, output, alerts, clock, op, identifier, found_duplicates>>

(***************************************************************************)
(* handle_message and handle_duplicate: the detection of duplicates in a   *)
(* plain message.  One get_db block per candidate.                         *)
(***************************************************************************)
\* mutant: the loop has no check for blank candidates
SkipBlankOff(candidates) == candidates

\* for identifier in potential_identifiers: if not identifier.strip(): continue
RECURSIVE SkipBlank(_)
SkipBlank(candidates) ==
    IF candidates # << >> /\ Strip(Head(candidates)) = << >>
    THEN SkipBlank(Tail(candidates))
    ELSE candidates

\* the candidates the instances in S have not finished with
RECURSIVE InFlight(_)
InFlight(S) ==
    IF S = {} THEN 0
    ELSE LET q == CHOOSE x \in S : TRUE
         IN  Len(pending[q]) + InFlight(S \ {q})

\* mutant: a failure handled for one candidate ends the loop
ContinueAborts(p, rest, exceptions, messages) ==
    IF exceptions # {} \/ SkipBlank(rest) = << >>
    THEN /\ Finish(p, IF exceptions # {} THEN "Error" ELSE "Processed",
                   exceptions, messages)
         /\ db_calls' = [db_calls EXCEPT ![p] =
                @ \o (IF pc[p] = "idle" THEN << >> ELSE get_db_exit(FALSE))]
         /\ UNCHANGED identifier
    ELSE /\ pc' = [pc EXCEPT ![p] = "msg_lookup"]
         /\ db_calls' = [db_calls EXCEPT ![p] =
                @ \o (IF pc[p] = "idle" THEN << >> ELSE get_db_exit(FALSE))
                  \o get_db_enter]
         /\ pending' = [pending EXCEPT ![p] = SkipBlank(rest)]
         /\ identifier' = [identifier EXCEPT ![p] = Head(SkipBlank(rest))]
         /\ existing' = [existing EXCEPT ![p] = NoRecord]
         /\ raised' = [raised EXCEPT ![p] = @ \cup exceptions]
         /\ sent' = [sent EXCEPT ![p] = @ \o messages]
         /\ UNCHANGED <<result, user, record_id>>

\* the loop of handle_message moves on to the candidates in rest, and the
\* handler ends when none is left: the with block of the candidate just
\* handled (none when the loop begins) is left normally, and one is entered
\* for the next candidate
Continue(p, rest, exceptions, messages) ==
    IF SkipBlank(rest) = << >>
    THEN /\ Finish(p, "Processed", exceptions, messages)
         /\ db_calls' = [db_calls EXCEPT ![p] =
                @ \o (IF pc[p] = "idle" THEN << >> ELSE get_db_exit(FALSE))]
         /\ UNCHANGED identifier
    ELSE /\ pc' = [pc EXCEPT ![p] = "msg_lookup"]
         /\ db_calls' = [db_calls EXCEPT ![p] =
                @ \o (IF pc[p] = "idle" THEN << >> ELSE get_db_exit(FALSE))
                  \o get_db_enter]
         /\ pending' = [pending EXCEPT ![p] = SkipBlank(rest)]
         /\ identifier' = [identifier EXCEPT ![p] = Head(SkipBlank(rest))]
         /\ existing' = [existing EXCEPT ![p] = NoRecord]
         /\ raised' = [raised EXCEPT ![p] = @ \cup exceptions]
         /\ sent' = [sent EXCEPT ![p] = @ \o messages]
         /\ UNCHANGED <<result, user, record_id>>

MsgStart(p) ==
    /\ pc[p] = "idle"
    /\ \E message_text \in MessageTexts :
          LET text == Strip(message_text)
              potential_identifiers == extract_identifiers(text)
          IN  /\ Cardinality(alerts) + InFlight(Procs) + Len(potential_identifiers)
                    <= MaxAlerts
              /\ op' = [op EXCEPT ![p] = "msg"]
              /\ IF message_text = << >> \/ StartsWithAt(text, 1, <<"/">>)
                 THEN /\ Finish(p, "Ignored", {}, << >>)
                      /\ UNCHANGED <<identifier, db_calls>>
                 ELSE Continue(p, potential_identifiers, {}, << >>)
    /\ UNCHANGED <<total_identifiers, duplicates, input, output, records, alerts, clock, found_duplicates>>

\* the SELECT of handle_message for the candidate identifier[p]; a failure
\* leaves get_db and is caught by the except clause of handle_message
\* mutant: the failure is caught inside the loop, which goes on with the
\* next candidate
LookupFailureSkipped(p) ==
    /\ Continue(p, Tail(pending[p]), {"OperationalError"}, << >>)
    /\ UNCHANGED found_duplicates

\* the SELECT raised: get_db rolls back, closes the session and re-raises,
\* the for loop is left, and the except clause of handle_message replies
LookupFailed(p) ==
    /\ Finish(p, "Error", {"OperationalError"}, <<"chat:message_error">>)
    /\ Exit(p, TRUE)
    /\ UNCHANGED <<identifier, found_duplicates>>

MsgLookup(p) ==
    /\ pc[p] = "msg_lookup"
    /\ \E ok \in BOOLEAN :
          IF ~ok
          THEN LookupFailed(p)
          ELSE IF FindActive(records, identifier[p]) # NoRecord
          THEN /\ existing' = [existing EXCEPT ![p] = FindActive(records, identifier[p])]
               /\ found_duplicates' = [found_duplicates EXCEPT ![p] = TRUE]
               /\ pc' = [pc EXCEPT ![p] = "dup_write"]
               /\ UNCHANGED <<result, raised, sent, user, record_id, pending,
                              identifier, db_calls>>
          ELSE /\ Continue(p, Tail(pending[p]), {}, << >>)
               /\ UNCHANGED found_duplicates
    /\ UNCHANGED <<total_identifiers, duplicates, input, output, records, alerts, clock, op>>

\* mutant: every duplicate occurrence is stored as a row with is_duplicate set
RecordsWithDuplicateRow(rows, existing_record, ident) ==
    rows \cup {[NewRecord(NextId(rows), ident, 0, existing_record.created_at)
                   EXCEPT !.is_duplicate = TRUE]}

\* the rows handle_duplicate leaves in identifier_records: "Instead of
\* creating a new record, we'll use the existing one"
RecordsAfterDuplicate(rows, existing_record, ident) == rows

\* mutant: no second alert for an identifier that has a pending one
AlertsDeduplicated(rows, existing_record, ident) ==
    IF \E a \in rows : a.identifier = ident /\ a.status = "pending"
    THEN rows
    ELSE rows \cup {NewAlert(NextId(rows), ident, existing_record)}

\* mutant: the alert row is not written by the time the alert is sent
AlertsDeferred(rows, existing_record, ident) == rows

\* the rows handle_duplicate leaves in duplicate_alerts: db.add(alert)
AlertsAfterDuplicate(rows, existing_record, ident) ==
    rows \cup {NewAlert(NextId(rows), ident, existing_record)}

\* mutant: the failed write is not rolled back, the alert stays pending
SessionKeepsPending(objects) == objects

\* db.rollback(): the objects added to the session since it began are
\* expunged, none is left pending
SessionAfterRollback(objects) == {}

\* db.commit() of get_db on leaving the with block: the pending objects of
\* the session are flushed (INSERT, the id given by the table) and committed
RECURSIVE SessionCommit(_, _)
SessionCommit(rows, objects) ==
    IF objects = {} THEN rows
    ELSE LET o == CHOOSE x \in objects : TRUE
         IN  SessionCommit(rows \cup {[o EXCEPT !.id = NextId(rows)]},
                           objects \ {o})

\* handle_duplicate up to its db.commit().  A failure is rolled back and
\* re-raised into the except clause of handle_duplicate itself, which
\* replies to the chat and notifies the administrators (nothing is sent when
\* the reply fails) and returns normally: handle_message goes on with its
\* loop, and get_db commits what the session still holds when the with block
\* of the candidate is left.
DupWrite(p) ==
    /\ pc[p] = "dup_write"
    /\ \E ok \in BOOLEAN, reply_ok \in BOOLEAN :
          IF ~ok \/ (ForeignKeysEnforced /\ GetById(records, existing[p].id) = NoRecord)
          THEN /\ Continue(p, Tail(pending[p]), {"AlertWriteFailed"},
                           IF reply_ok
                           THEN <<"chat:duplicate_error", "admins:duplicate_error">>
                           ELSE << >>)
               /\ alerts' = SessionCommit(alerts,
                      SessionAfterRollback({NewAlert(0, identifier[p], existing[p])}))
               /\ UNCHANGED records
          ELSE /\ reply_ok
               /\ records' = RecordsAfterDuplicate(records, existing[p], identifier[p])
               /\ alerts' = AlertsAfterDuplicate(alerts, existing[p], identifier[p])
               /\ pc' = [pc EXCEPT ![p] = "dup_notify"]
               /\ UNCHANGED <<result, raised, sent, user, record_id, existing,
                              pending, identifier, db_calls>>
    /\ UNCHANGED <<total_identifiers, duplicates, input, output, clock, op, found_duplicates>>

\* mutant: the direct message is sent whether or not the reply went through
AlertMessagesBoth(reply_ok, send_ok) ==
    (IF reply_ok THEN <<"chat:alert_reply">> ELSE << >>)
        \o (IF send_ok THEN <<"chat:alert_direct">> ELSE <<"admins:alert_failed">>)

\* the alert message: a reply; if that fails a direct message to the chat;
\* if that fails too a note to the administrators
AlertMessages(reply_ok, send_ok) ==
    IF reply_ok THEN <<"chat:alert_reply">>
    ELSE IF send_ok THEN <<"chat:alert_direct">>
    ELSE <<"admins:alert_failed">>

\* the alert of the duplicate just recorded is sent
DupNotify(p) ==
    /\ pc[p] = "dup_notify"
    /\ \E reply_ok \in BOOLEAN, send_ok \in BOOLEAN :
          /\ reply_ok => send_ok
          /\ Continue(p, Tail(pending[p]), {}, AlertMessages(reply_ok, send_ok))
    /\ UNCHANGED <<total_identifiers, duplicates, input, output, records, alerts, clock, op, found_duplicates>>

(***************************************************************************)
(* status (/status).  The two counts are two SELECT statements of one      *)
(* session; the SQLite driver opens no transaction for a SELECT, so each   *)
(* count reads the table as it is when the statement runs.                 *)
(***************************************************************************)
\* db.query(IdentifierRecord).count()
CountAll(rows) == Cardinality(rows)

\* db.query(IdentifierRecord).filter(is_duplicate == False).count()
CountActive(rows) == Cardinality({r \in rows : ~r.is_duplicate})

\* the handler from its start through the count of all records
StatusTotal(p) ==
    /\ pc[p] = "idle"
    /\ op' = [op EXCEPT ![p] = "status"]
    /\ \E ok \in BOOLEAN :
          IF ~ok
          THEN /\ Finish(p, "Error", {"OperationalError"}, <<"chat:status_error">>)
               /\ db_calls' = [db_calls EXCEPT ![p] =
                      @ \o get_db_enter \o get_db_exit(TRUE)]
               /\ UNCHANGED total_identifiers
          ELSE /\ total_identifiers' = [total_identifiers EXCEPT ![p] = CountAll(records)]
               /\ pc' = [pc EXCEPT ![p] = "status_unique"]
               /\ Enter(p)
               /\ UNCHANGED <<result, raised, sent, user, record_id, existing, pending>>
    /\ UNCHANGED <<duplicates, input, output, records, alerts, clock, identifier,
                   found_duplicates>>

\* the count of the active records, duplicates = total_identifiers -
\* unique_identifiers, the counts by type and the reply; a failure of a
\* query goes to the except clause of status
StatusUnique(p) ==
    /\ pc[p] = "status_unique"
    /\ \E ok \in BOOLEAN :
          IF ~ok
          THEN /\ Finish(p, "Error", {"OperationalError"}, <<"chat:status_error">>)
               /\ Exit(p, TRUE)
               /\ UNCHANGED duplicates
          ELSE /\ duplicates' = [duplicates EXCEPT ![p] =
                      total_identifiers[p] - CountActive(records)]
               /\ Finish(p, "Status", {}, <<"chat:status">>)
               /\ Exit(p, FALSE)
    /\ total_identifiers' = [total_identifiers EXCEPT ![p] = 0]
    /\ UNCHANGED <<input, output, records, alerts, clock, op, identifier,
                   found_duplicates>>

\* the instance takes its next update
Return(p) ==
    /\ pc[p] = "done"
    /\ pc' = [pc EXCEPT ![p] = "idle"]
    /\ op' = [op EXCEPT ![p] = "none"]
    /\ identifier' = [identifier EXCEPT ![p] = << >>]
    /\ found_duplicates' = [found_duplicates EXCEPT ![p] = FALSE]
    /\ result' = [result EXCEPT ![p] = "none"]
    /\ raised' = [raised EXCEPT ![p] = {}]
    /\ sent' = [sent EXCEPT ![p] = << >>]
    /\ db_calls' = [db_calls EXCEPT ![p] = << >>]
    /\ record_id' = [record_id EXCEPT ![p] = 0]
    /\ duplicates' = [duplicates EXCEPT ![p] = 0]
    /\ UNCHANGED <<total_identifiers, input, output, records, alerts, clock, user, existing, pending>>

Next ==
    \E p \in Procs :
        \/ AddStart(p)
        \/ AddLookup(p)
        \/ AddInsert(p)
        \/ RemoveStart(p)
        \/ RemoveGet(p)
        \/ RemoveDelete(p)
        \/ MsgStart(p)
        \/ MsgLookup(p)
        \/ DupWrite(p)
        \/ DupNotify(p)
        \/ StatusTotal(p)
        \/ StatusUnique(p)
        \/ Return(p)

Spec == Init /\ [][Next]_vars

(***************************************************************************)
(* determine_identifier_type as a function of its argument alone: a call   *)
(* with an argument drawn from ClassifyInputs.                             *)
(***************************************************************************)
\* the longest run of digits among the arguments
MaxDigits == 22

\* the longest of the arguments built from Alphabet
MaxLen == 3

Alphabet == {"a", "Z", "1", "@", ".", "-", " "}

\* the strings over Alphabet of at most MaxLen characters
ShortInputs == UNION {[1..k -> Alphabet] : k \in 0..MaxLen}

\* runs of digits of every length up to MaxDigits, bare and with whitespace
\* before, inside and after
DigitInputs ==
    UNION {LET run == [i \in 1..n |-> "7"]
           IN  {run, <<" ">> \o run, <<"7", " ">> \o run, run \o <<"\t", "\n">>} :
           n \in 1..MaxDigits}

\* "12345678901234567890"
TwentyDigits ==
    <<"1", "2", "3", "4", "5", "6", "7", "8", "9", "0",
      "1", "2", "3", "4", "5", "6", "7", "8", "9", "0">>

\* the 8-4-4-4-12 layout with the characters a and b in turn
UuidOf(a, b) ==
    [i \in 1..UuidLen |->
        IF i \in UuidHyphens THEN "-" ELSE IF i % 2 = 1 THEN a ELSE b]

\* strings in the UUID layout (digits only, letters only, both, either
\* case), the layout with a letter that is no hexadecimal digit, with a
\* character too many, with whitespace inside, and as the user of an address
UuidInputs ==
    {UuidOf(a, b) : a \in {"1", "a", "F", "g"}, b \in {"2", "b", "E"}}
        \cup {UuidOf("1", "b") \o <<"0">>,
              <<" ">> \o UuidOf("1", "b"),
              UuidOf("1", "b") \o <<"@", "a", ".", "b">>}

ClassifyInputs ==
    ShortInputs \cup DigitInputs \cup {TwentyDigits} \cup UuidInputs

ClassifyInit ==
    /\ StoreInit
    /\ input \in ClassifyInputs
    /\ output = "none"

\* identifier_type = self.determine_identifier_type(identifier)
Classify ==
    /\ output = "none"
    /\ output' = determine_identifier_type(input)
    /\ UNCHANGED <<total_identifiers, duplicates,
                   input, records, alerts, clock, pc, op, user, identifier,
                   record_id, existing, pending, found_duplicates, result,
                   raised, sent, db_calls>>

ClassifyNext == Classify

ClassifySpec == ClassifyInit /\ [][ClassifyNext]_vars

(***************************************************************************)
(* extract_identifiers as handle_message calls it, over messages put       *)
(* together from short and long tokens, URLs, bare URL prefixes and        *)
(* separators.                                                             *)
(***************************************************************************)
MaxPieces == 3

Pieces ==
    { <<"a", "b", "c">>,
      <<"a", "b", "c", "d", "e", "f">>,
      <<"w", "w", "w", ".", "x">>,
      <<"h", "t", "t", "p", ":", "/", "/", "x">>,
      <<"h", "t", "t", "p", "s", ":", "/", "/">>,
      <<"w", "w", "w", ".">>,
      <<" ">>, <<",">>, <<";">>, <<"|">> }

\* the concatenations of at most n pieces
RECURSIVE Concatenations(_)
Concatenations(n) ==
    IF n = 0 THEN {<< >>}
    ELSE Concatenations(n - 1)
            \cup {s \o piece : s \in Concatenations(n - 1), piece \in Pieces}

ExtractInputs == Concatenations(MaxPieces)

ExtractInit ==
    /\ StoreInit
    /\ input \in ExtractInputs
    /\ output = << >>

\* text = message.text.strip();
\* potential_identifiers = self.extract_identifiers(text)
Extract ==
    /\ output = << >>
    /\ output' = extract_identifiers(Strip(input))
    /\ UNCHANGED <<total_identifiers, duplicates,
                   input, records, alerts, clock, pc, op, user, identifier,
                   record_id, existing, pending, found_duplicates, result,
                   raised, sent, db_calls>>

ExtractNext == Extract

ExtractSpec == ExtractInit /\ [][ExtractNext]_vars

(***************************************************************************)
(* Settings.admin_ids_list over the values of the ADMIN_IDS setting.       *)
(***************************************************************************)
MaxSetting == 4

SettingChars == {"0", "1", "2", ",", " ", "x"}

\* the strings over SettingChars of at most n characters
RECURSIVE SettingsUpTo(_)
SettingsUpTo(n) ==
    IF n = 0 THEN {<< >>}
    ELSE SettingsUpTo(n - 1)
            \cup {Append(s, c) : s \in SettingsUpTo(n - 1), c \in SettingChars}

AdminInputs == SettingsUpTo(MaxSetting)

\* the list is not read yet: <<-1>>, which no setting gives
AdminInit ==
    /\ StoreInit
    /\ input \in AdminInputs
    /\ output = <<-1>>

\* settings.admin_ids_list, as is_admin reads it
ReadAdmins ==
    /\ output = <<-1>>
    /\ output' = admin_ids_list(input)
    /\ UNCHANGED <<total_identifiers, duplicates,
                   input, records, alerts, clock, pc, op, user, identifier,
                   record_id, existing, pending, found_duplicates, result,
                   raised, sent, db_calls>>

AdminNext == ReadAdmins

AdminSpec == AdminInit /\ [][AdminNext]_vars

(***************************************************************************)
(* Properties.                                                             *)
(***************************************************************************)
\* the step is one of instance p inside handle_message / handle_duplicate
MsgStep(p) ==
    /\ op'[p] = "msg"
    /\ pc[p] # "done"
    /\ <<pc[p], pending[p]>> # <<pc'[p], pending'[p]>>

\* C1: whatever add, detect and remove calls the instances interleave, no two
\* rows of identifier_records with is_duplicate = false hold the same identifier.
UniqueActiveIdentifier ==
    \A r1 \in records, r2 \in records :
        (r1.identifier = r2.identifier /\ ~r1.is_duplicate /\ ~r2.is_duplicate)
            => r1 = r2

\* two instances raced on one identifier and the store rejected the later insert
RejectedSecondInsert ==
    \E p \in Procs :
        /\ pc[p] = "done" /\ op[p] = "add" /\ "IntegrityError" \in raised[p]
        /\ \E r \in records : r.identifier = identifier[p] /\ ~r.is_duplicate

\* C2: an attempt to add an identifier that had no active record when the
\* attempt looked it up, and that met no storage failure, ends as Accepted or as
\* DuplicateDetected with an alert for the identifier, never as an error.
AtMostOneNew ==
    \A p \in Procs :
        (/\ pc[p] = "done" /\ op[p] = "add"
         /\ result[p] \notin {"Rejected", "AlreadyMonitored"}
         /\ "OperationalError" \notin raised[p])
            => \/ result[p] = "Accepted"
               \/ /\ result[p] = "DuplicateDetected"
                  /\ \E a \in alerts : a.identifier = identifier[p]

\* C3: an attempt whose insert the uniqueness constraint rejected has left a
\* DuplicateAlert that references the active record of its identifier, and has
\* not ended as an error.
ConflictAsDuplicate ==
    \A p \in Procs :
        (pc[p] = "done" /\ op[p] = "add" /\ "IntegrityError" \in raised[p])
            => /\ result[p] # "Error"
               /\ \E a \in alerts, r \in records :
                      /\ r.identifier = identifier[p] /\ ~r.is_duplicate
                      /\ a.identifier = identifier[p] /\ a.original_id = r.id

\* C4: the step of handle_message that looks up a candidate and finds no active
\* record leaves an active record of that candidate in the store.
NewCandidateAccepted ==
    [][\A p \in Procs :
          (/\ pc[p] = "msg_lookup" /\ MsgStep(p)
           /\ FindActive(records, identifier[p]) = NoRecord
           /\ "OperationalError" \notin raised'[p])
              => FindActive(records', identifier[p]) # NoRecord]_vars

\* C5: once handle_duplicate has written its alert for a candidate, the alert
\* table holds a row whose identifier is the candidate and whose original_id is
\* the id of the active record the lookup found for that candidate.
AlertReferencesMatchedRecord ==
    \A p \in Procs :
        pc[p] = "dup_notify"
            => /\ existing[p].identifier = identifier[p]
               /\ ~existing[p].is_duplicate
               /\ \E a \in alerts :
                      a.identifier = identifier[p] /\ a.original_id = existing[p].id

\* a detection has written its alert and is about to notify
AlertWritten ==
    \E p \in Procs :
        /\ pc[p] = "dup_notify"
        /\ \E a \in alerts : a.identifier = identifier[p]

\* C6: every detection whose alert write succeeds adds exactly one row to
\* duplicate_alerts, a row for its candidate, also when rows for that candidate
\* exist; no other step adds a row and no step removes one.
OneAlertPerDetection ==
    [][/\ alerts \subseteq alerts'
       /\ alerts' # alerts =>
              \E p \in Procs : pc[p] = "dup_write" /\ pc'[p] = "dup_notify"
       /\ \A p \in Procs :
              (pc[p] = "dup_write" /\ pc'[p] = "dup_notify")
                  => /\ Cardinality(alerts') = Cardinality(alerts) + 1
                     /\ \A a \in alerts' \ alerts : a.identifier = identifier[p]]_vars

\* the same identifier was detected twice and has two alert rows
TwoAlertsForOneIdentifier ==
    \E a1 \in alerts, a2 \in alerts :
        a1 # a2 /\ a1.identifier = a2.identifier /\ a1.original_id = a2.original_id

\* C7: every row of duplicate_alerts has an original_id that is the id of a row
\* of identifier_records.
ReferentialIntegrity ==
    \A a \in alerts : \E r \in records : r.id = a.original_id

\* C8: no step of handle_message or handle_duplicate changes identifier_records.
DetectionLeavesRecords ==
    [][\A p \in Procs : MsgStep(p) => records' = records]_vars

\* a message was processed to its end, a duplicate was found and its alert written
DuplicateProcessed ==
    \E p \in Procs :
        /\ pc[p] = "done" /\ op[p] = "msg" /\ result[p] = "Processed"
        /\ found_duplicates[p] /\ raised[p] = {}
        /\ records # {} /\ alerts # {}

\* C9: every row of duplicate_alerts has status 'pending'.
AlertsStayPending ==
    \A a \in alerts : a.status = "pending"

\* an alert exists and a /remove has gone through after it was written
AlertAndRemoval ==
    /\ alerts # {}
    /\ \E p \in Procs : pc[p] = "done" /\ result[p] = "Removed"

\* C10: a message during whose handling the write of an alert failed ends with
\* handle_message seeing the failure (its except clause ran).
AlertFailureReported ==
    \A p \in Procs :
        (pc[p] = "done" /\ op[p] = "msg" /\ "AlertWriteFailed" \in raised[p])
            => result[p] = "Error"

\* C11: every step of a detection other than the successful write of its alert,
\* the failed write with its rollback and the commit of get_db on leaving the
\* block included, leaves duplicate_alerts and identifier_records as they were.
FailedWriteRolledBack ==
    [][\A p \in Procs :
          (MsgStep(p) /\ ~(pc[p] = "dup_write" /\ pc'[p] = "dup_notify"))
              => alerts' = alerts /\ records' = records]_vars

\* the write of an alert for a stored identifier failed and the message was
\* handled to its end: no alert row exists
WriteFailedNothingStored ==
    \E p \in Procs :
        /\ pc[p] = "done" /\ op[p] = "msg" /\ "AlertWriteFailed" \in raised[p]
        /\ records # {} /\ alerts = {}

\* C12: the step in which the lookup of a candidate fails ends the handling of
\* the message as an error that is replied to the chat, with no further lookup
\* of any candidate of the message and no change of either table.
LookupFailureSurfaced ==
    [][\A p \in Procs :
          (pc[p] = "msg_lookup" /\ "OperationalError" \in raised'[p])
              => /\ pc'[p] = "done"
                 /\ result'[p] = "Error"
                 /\ sent'[p] = Append(sent[p], "chat:message_error")
                 /\ alerts' = alerts /\ records' = records]_vars

\* the lookup of a candidate that has an active record failed: the message
\* ended as an error and no alert for the candidate exists
FailedLookupOfDuplicate ==
    \E p \in Procs :
        /\ pc[p] = "done" /\ op[p] = "msg" /\ result[p] = "Error"
        /\ "OperationalError" \in raised[p]
        /\ \E r \in records : r.identifier = identifier[p]
        /\ \A a \in alerts : a.identifier # identifier[p]

\* C13: no statement is ever issued for an empty candidate: a handler of /add
\* or of a message that is between its start and its end holds a candidate that
\* is not empty after trimming, and neither table holds an empty identifier.
EmptyCandidateSkipped ==
    /\ \A p \in Procs :
           (op[p] \in {"add", "msg"} /\ pc[p] \notin {"idle", "done"})
               => Strip(identifier[p]) # << >>
    /\ \A r \in records : Strip(r.identifier) # << >>
    /\ \A a \in alerts : Strip(a.identifier) # << >>

\* a message whose only candidate is blank was handled to its end with no
\* lookup, while the store holds records
BlankMessageSkipped ==
    \E p \in Procs :
        /\ pc[p] = "done" /\ op[p] = "msg" /\ result[p] = "Processed"
        /\ identifier[p] = << >> /\ raised[p] = {} /\ sent[p] = << >>
        /\ records # {}

\* the tags determine_identifier_type returns
TypeTags ==
    {"unknown", "email", "phone", "account_number", "large_number", "numeric",
     "reference_code", "text", "uuid", "custom"}

\* the rows with every type tag replaced by t
Retag(rows, t) == {[r EXCEPT !.identifier_type = t] : r \in rows}

\* C14: a lookup that does not fail decides DUPLICATE exactly when an active
\* record whose identifier equals the trimmed candidate character by character
\* exists, and decides the same whatever type tags the stored records carry.
ExactMatchDecision ==
    [][\A p \in Procs :
          (/\ pc[p] \in {"add_lookup", "msg_lookup"}
           /\ <<pc[p], pending[p]>> # <<pc'[p], pending'[p]>>
           /\ "OperationalError" \notin raised'[p])
              => LET duplicate ==
                         pc'[p] = "dup_write" \/ result'[p] = "AlreadyMonitored"
                     exact == \E r \in records :
                                  r.identifier = identifier[p] /\ ~r.is_duplicate
                 IN  /\ duplicate <=> exact
                     /\ \A t \in TypeTags :
                            (FindActive(Retag(records, t), identifier[p]) # NoRecord)
                                <=> exact]_vars

\* "abc-999" was looked up and found new although "ABC-999" is stored
CaseVariantIsNew ==
    \E p \in Procs :
        /\ pc[p] = "done" /\ op[p] = "msg" /\ result[p] = "Processed"
        /\ identifier[p] = IdC /\ ~found_duplicates[p]
        /\ \E r \in records : r.identifier = IdA /\ ~r.is_duplicate
        /\ alerts = {}

\* C15: in the state a successful insert of /add leaves, the lookup of the
\* inserted identifier returns a record with that identifier, which is the
\* trimmed argument, and with the type tag determine_identifier_type gives it.
InsertThenLookup ==
    [][\A p \in Procs :
          (pc[p] = "add_insert" /\ result'[p] = "Accepted")
              => LET found == FindActive(records', identifier[p])
                 IN  /\ found.identifier = identifier[p]
                     /\ identifier[p] = Strip(identifier[p])
                     /\ found.identifier_type =
                            determine_identifier_type(identifier[p])]_vars

\* an /add went through and the lookup of its identifier returns the record
InsertedAndFound ==
    \E p \in Procs :
        /\ pc[p] = "done" /\ op[p] = "add" /\ result[p] = "Accepted"
        /\ FindActive(records, identifier[p]).identifier = identifier[p]
        /\ FindActive(records, identifier[p]).identifier_type = "reference_code"

\* the argument of the call without its whitespace
CleanInput == RemoveWhitespace(input)

\* the argument holds an '@' and a '.' somewhere after its last '@'
InputIsEmail ==
    \E i \in 1..Len(input) :
        /\ input[i] = "@"
        /\ \A j \in (i + 1)..Len(input) : input[j] # "@"
        /\ \E j \in (i + 1)..Len(input) : input[j] = "."

\* the argument without its whitespace is not empty and holds digits only
InputIsDigits ==
    CleanInput # << >> /\ \A i \in 1..Len(CleanInput) : CleanInput[i] \in Digits

\* C16: an argument that without its whitespace is a non-empty string of digits
\* is tagged phone with 8 to 15 digits, account_number with 16 to 20,
\* large_number with more than 20 and numeric with 7 or fewer.
DigitRule ==
    (output # "none" /\ InputIsDigits)
        => LET n == Len(CleanInput)
           IN  /\ (8 <= n /\ n <= 15) => output = "phone"
               /\ (16 <= n /\ n <= 20) => output = "account_number"
               /\ n > 20 => output = "large_number"
               /\ n <= 7 => output = "numeric"

\* eight digits with whitespace among them were tagged phone
EightDigitsPhone ==
    /\ output = "phone"
    /\ Len(CleanInput) = 8 /\ Len(input) > 8

\* C17 as claimed: the string of the twenty digits 12345678901234567890 is
\* tagged large_number.
TwentyDigitsLarge ==
    (output # "none" /\ input = TwentyDigits) => output = "large_number"

\* C17 as amended: the string of the twenty digits 12345678901234567890 is
\* tagged account_number.
TwentyDigitsAccount ==
    (output # "none" /\ input = TwentyDigits) => output = "account_number"

\* the string of twenty digits has been classified
TwentyDigitsClassified ==
    input = TwentyDigits /\ output # "none"

\* C18: an argument in the UUID layout (8-4-4-4-12 hexadecimal digits of either
\* case) is tagged uuid, whether its hexadecimal digits are letters, digits or
\* both.
UuidPriority ==
    (output # "none" /\ MatchesUuid(LowerStr(input))) => output = "uuid"

\* C19: the tag is unknown exactly for the arguments that are empty or
\* whitespace only, and among the others it is email exactly for those that
\* hold an '@' and a '.' after their last '@', whatever else they hold.
UnknownAndEmailFirst ==
    output # "none"
        => /\ output = "unknown" <=> CleanInput = << >>
           /\ CleanInput # << >> => (output = "email" <=> InputIsEmail)

\* an address of digits only around its '@' was tagged email
EmailOfDigits ==
    /\ output = "email"
    /\ Chars(input) \cap Digits # {}
    /\ Chars(input) \cap Letters = {}

\* C20: every tag is one of the ten, and an argument that is not empty, not an
\* email, not all digits and not in the UUID layout is tagged reference_code
\* when it holds a letter and a digit, text when it holds letters only, and
\* custom otherwise.
FallThroughRules ==
    output # "none"
        => /\ output \in TypeTags
           /\ (/\ CleanInput # << >> /\ ~InputIsEmail /\ ~InputIsDigits
               /\ ~MatchesUuid(LowerStr(CleanInput)))
                  => LET letters == Chars(CleanInput) \cap Letters
                         digits == Chars(CleanInput) \cap Digits
                     IN  output =
                             IF letters # {} /\ digits # {} THEN "reference_code"
                             ELSE IF Chars(CleanInput) \subseteq Letters THEN "text"
                             ELSE "custom"

\* letters with punctuation were tagged custom
LettersWithPunctuationCustom ==
    /\ output = "custom"
    /\ Chars(input) \cap Letters # {}
    /\ "-" \in Chars(input)

\* C21: a /remove whose lookup does not fail ends as not found exactly when no
\* record has the id, and then leaves both tables unchanged; a /remove that goes
\* through leaves no record with the id, so that the next lookup of the id finds
\* none; a /remove whose argument is no number ends as invalid before any
\* statement; and no step of /remove changes the alerts.
RemoveAbsentNotFound ==
    [][\A p \in Procs :
          /\ (/\ pc[p] = "remove_get" /\ pc'[p] # "remove_get"
              /\ "OperationalError" \notin raised'[p])
                 => /\ result'[p] = "NotFound"
                        <=> ~(\E r \in records : r.id = record_id[p])
                    /\ records' = records /\ alerts' = alerts
          /\ (pc[p] = "remove_delete" /\ result'[p] = "Removed")
                 => /\ ~(\E r \in records' : r.id = record_id[p])
                    /\ records' \subseteq records /\ alerts' = alerts
          /\ (pc[p] = "idle" /\ op'[p] = "remove" /\ "ValueError" \in raised'[p])
                 => /\ pc'[p] = "done" /\ result'[p] = "Invalid"
                    /\ records' = records /\ alerts' = alerts]_vars

\* id 1 was removed by one /remove and reported as not found to the next,
\* with no insert in between
RemovedThenNotFound ==
    \E p \in Procs, q \in Procs :
        /\ pc[p] = "done" /\ op[p] = "remove" /\ result[p] = "Removed"
        /\ pc[q] = "done" /\ op[q] = "remove" /\ result[q] = "NotFound"
        /\ record_id[p] = 1 /\ record_id[q] = 1
        /\ clock = 1

\* C22: the lookup of /add that finds an active record of the identifier ends
\* the command as already monitored, and inserts no record, changes no record
\* and writes no alert.
AddExistingRejected ==
    [][\A p \in Procs :
          (/\ pc[p] = "add_lookup" /\ pc'[p] # "add_lookup"
           /\ "OperationalError" \notin raised'[p]
           /\ \E r \in records : r.identifier = identifier[p] /\ ~r.is_duplicate)
              => /\ pc'[p] = "done" /\ result'[p] = "AlreadyMonitored"
                 /\ sent'[p] = <<"chat:already">>
                 /\ records' = records /\ alerts' = alerts]_vars

\* an /add of a stored identifier was rejected: one record, no alert
SecondAddRejected ==
    \E p \in Procs :
        /\ pc[p] = "done" /\ op[p] = "add" /\ result[p] = "AlreadyMonitored"
        /\ Cardinality(records) = 1 /\ alerts = {}
        /\ \A r \in records : r.identifier = identifier[p]

\* calls is a sequence of with blocks of get_db, each one SessionLocal, then
\* either commit or rollback, then close; the last block may be open (entered
\* and not left) where open allows it
RECURSIVE ScopedCalls(_, _)
ScopedCalls(calls, open) ==
    IF calls = << >> THEN TRUE
    ELSE IF /\ Len(calls) >= 3
            /\ calls[1] = "SessionLocal"
            /\ calls[2] \in {"commit", "rollback"}
            /\ calls[3] = "close"
    THEN ScopedCalls(SubSeq(calls, 4, Len(calls)), open)
    ELSE open /\ calls = <<"SessionLocal">>

NewlySent(p) == SubSeq(sent'[p], Len(sent[p]) + 1, Len(sent'[p]))

\* the alert messages to the chat among messages
ChatAlerts(messages) ==
    {i \in 1..Len(messages) : messages[i] \in {"chat:alert_reply", "chat:alert_direct"}}

\* C24: the step that notifies of one recorded duplicate sends exactly one
\* message: the reply, or the direct message, or the note to the
\* administrators, so at most one alert reaches the chat; and no other step of
\* a running handler sends an alert message or the note.
AlertAtMostOnce ==
    [][\A p \in Procs :
          /\ (pc[p] = "dup_notify" /\ pc'[p] # "dup_notify")
                => /\ Len(sent'[p]) = Len(sent[p]) + 1
                   /\ Cardinality(ChatAlerts(NewlySent(p))) <= 1
                   /\ NewlySent(p)[1] \in {"chat:alert_reply", "chat:alert_direct",
                                           "admins:alert_failed"}
          /\ (pc[p] # "dup_notify" /\ pc'[p] # "idle")
                => /\ ChatAlerts(NewlySent(p)) = {}
                   /\ \A i \in 1..Len(NewlySent(p)) :
                         NewlySent(p)[i] # "admins:alert_failed"]_vars

\* one message had two duplicates: one alert went out as a reply, the other as
\* a direct message
TwoEventsTwoAlerts ==
    \E p \in Procs :
        /\ pc[p] = "done" /\ op[p] = "msg"
        /\ Cardinality(ChatAlerts(sent[p])) = 2
        /\ \E i, j \in 1..Len(sent[p]) :
              sent[p][i] = "chat:alert_reply" /\ sent[p][j] = "chat:alert_direct"

\* C25: every alert whose original_id is the id of a stored record names the
\* identifier of that record.
AlertNamesItsRecord ==
    \A a \in alerts : \A r \in records :
        r.id = a.original_id => r.identifier = a.identifier

\* C26: when the notification of a duplicate begins, the alert row of the
\* candidate and the record found is stored, and the notification step,
\* whichever of its attempts fail, leaves both tables as they are.
PersistBeforeNotify ==
    [][\A p \in Procs :
          (pc[p] = "dup_notify" /\ pc'[p] # "dup_notify")
             => /\ \E a \in alerts : /\ a.identifier = identifier[p]
                                     /\ a.original_id = existing[p].id
                                     /\ a.status = "pending"
                /\ alerts' = alerts
                /\ records' = records]_vars

\* the reply and the direct message both failed, only the note to the
\* administrators went out, and the alert row is stored
NotificationFailedAlertKept ==
    \E p \in Procs :
        /\ pc[p] = "done" /\ op[p] = "msg"
        /\ sent[p] = <<"admins:alert_failed">>
        /\ Cardinality(alerts) = 1
        /\ \A a \in alerts : a.identifier = identifier[p]

\* the text extract_identifiers works on: the trimmed message without URLs
UrlFreeText == RemoveUrls(Strip(input))

\* the candidates returned, as a set
Candidates == {output[i] : i \in 1..Len(output)}

\* where in s a token begins that equals t: a longest run of characters that
\* are no separators
TokenStarts(s, t) ==
    {i \in 1..Len(s) :
        /\ Len(t) > 0
        /\ i + Len(t) - 1 <= Len(s)
        /\ SubSeq(s, i, i + Len(t) - 1) = t
        /\ \A k \in 1..Len(t) : t[k] \notin Separators
        /\ i = 1 \/ s[i - 1] \in Separators
        /\ i + Len(t) - 1 = Len(s) \/ s[i + Len(t)] \in Separators}

Tokens(s) ==
    {t \in {SubSeq(s, i, j) : i \in 1..Len(s), j \in 1..Len(s)} :
        TokenStarts(s, t) # {}}

\* a match of https?://\S+ or www\.\S+ in s: a prefix and a character after it
\* that is no whitespace
UrlPrefixes ==
    { <<"h", "t", "t", "p", ":", "/", "/">>,
      <<"h", "t", "t", "p", "s", ":", "/", "/">>,
      <<"w", "w", "w", ".">> }

HasUrl(s) ==
    \E i \in 1..Len(s) : \E prefix \in UrlPrefixes :
        /\ i + Len(prefix) <= Len(s)
        /\ SubSeq(s, i, i + Len(prefix) - 1) = prefix
        /\ s[i + Len(prefix)] \notin Whitespace

Remaining(p) ==
    SelectSeq(Tail(pending[p]), LAMBDA c : \E i \in 1..Len(c) : c[i] \notin Whitespace)

\* C29: a step in which the write of an alert fails leaves the tables as they
\* are and goes on to the lookup of the next candidate that is not blank, or
\* ends the message as processed when there is none; a step in which the
\* lookup fails ends the message with an error, whatever candidates are left,
\* and writes no alert.
FailureContained ==
    [][\A p \in Procs :
          /\ (pc[p] = "dup_write" /\ pc'[p] \notin {"dup_write", "dup_notify"})
                => /\ "AlertWriteFailed" \in raised'[p]
                   /\ alerts' = alerts /\ records' = records
                   /\ IF Remaining(p) # << >>
                      THEN /\ pc'[p] = "msg_lookup"
                           /\ identifier'[p] = Head(Remaining(p))
                           /\ Len(pending'[p]) <= Len(Tail(pending[p]))
                      ELSE pc'[p] = "done" /\ result'[p] = "Processed"
          /\ (pc[p] = "msg_lookup" /\ "OperationalError" \in raised'[p])
                => /\ pc'[p] = "done" /\ result'[p] = "Error"
                   /\ pending'[p] = << >>
                   /\ alerts' = alerts /\ records' = records]_vars

\* the alert write of the first candidate of a message failed, and the second
\* candidate was then looked up, recorded and notified
SecondCandidateAfterFailure ==
    \E p \in Procs :
        /\ pc[p] = "done" /\ op[p] = "msg" /\ result[p] = "Processed"
        /\ raised[p] = {"AlertWriteFailed"}
        /\ Cardinality(records) = 2
        /\ Cardinality(alerts) = 1
        /\ \A a \in alerts : a.identifier = identifier[p]
        /\ ChatAlerts(sent[p]) # {}
        /\ Len(db_calls[p]) = 6

\* C30: a /remove reaches its first store statement only for a user of the
\* administrators' list, and a /remove of any other user, or of none, ends
\* as denied in its first step with both tables and the session log
\* untouched; the insert of /add stores the record under the id of whoever
\* sent the command.
RemoveAdminOnly ==
    [][\A p \in Procs :
          /\ (pc[p] = "idle" /\ pc'[p] = "remove_get")
                => \E i \in 1..Len(admin_ids_list(ADMIN_IDS)) :
                      admin_ids_list(ADMIN_IDS)[i] = user'[p]
          /\ (pc[p] = "idle" /\ op'[p] = "remove" /\ result'[p] = "Denied")
                => /\ pc'[p] = "done"
                   /\ records' = records /\ alerts' = alerts
                   /\ db_calls'[p] = << >>
          /\ (pc[p] = "remove_delete" /\ pc'[p] # "remove_delete")
                => \E i \in 1..Len(admin_ids_list(ADMIN_IDS)) :
                      admin_ids_list(ADMIN_IDS)[i] = user[p]
          /\ (pc[p] = "add_insert" /\ result'[p] = "Accepted")
                => \E r \in records' \ records : r.user_id = user[p]]_vars

\* a record added by user 2, who is no administrator, is stored, and the
\* /remove of a user who is no administrator was denied
AddedByAnyoneRemoveDenied ==
    /\ \E r \in records : r.user_id = 2
    /\ \E p \in Procs :
          /\ pc[p] = "done" /\ op[p] = "remove" /\ result[p] = "Denied"
          /\ db_calls[p] = << >>

\* C31: the 'Duplicates Detected' figure of every /status reply is 0.
StatusFigureZero ==
    \A p \in Procs :
        (pc[p] = "done" /\ op[p] = "status" /\ result[p] = "Status")
            => duplicates[p] = 0

\* the end of the comma-separated token of s that begins at i
TokenEnd(s, i) ==
    LET commas == {k \in i..Len(s) : s[k] = ","}
    IN  IF commas = {} THEN Len(s)
        ELSE (CHOOSE k \in commas : \A l \in commas : k <= l) - 1

\* the numbers of the comma-separated tokens of s, from the token that begins
\* at i on, that are all digits once trimmed
RECURSIVE IdsFrom(_, _)
IdsFrom(s, i) ==
    LET e == TokenEnd(s, i)
        token == Strip(SubSeq(s, i, e))
        here == IF Len(token) > 0 /\ \A k \in 1..Len(token) : token[k] \in Digits
                THEN <<ParseInt(token)>> ELSE << >>
    IN  here \o (IF e >= Len(s) THEN << >> ELSE IdsFrom(s, e + 2))

\* C32: the list read from a setting is never empty: it holds the numbers of
\* the comma-separated tokens that are all digits, in their order, and is
\* <<1>> when there is none, so that user 1 is then an administrator.
AdminListNeverEmpty ==
    output # <<-1>>
        => /\ Len(output) >= 1
           /\ output = IF IdsFrom(input, 1) = << >> THEN <<1>> ELSE IdsFrom(input, 1)
           /\ IdsFrom(input, 1) = << >> => \E i \in 1..Len(output) : output[i] = 1

\* a setting that names 2 in a token that is not all digits and has no valid
\* token: the list is the default
DefaultAdminUsed ==
    /\ output = <<1>>
    /\ "," \in Chars(input)
    /\ "2" \in Chars(input)
    /\ "1" \notin Chars(input)

=============================================================================
